---- MODULE Spec2Model ----
(***************************************************************************)
(* Login / second-factor flow of the CoinSensei mobile client.             *)
(*                                                                         *)
(* AuthProvider (context/AuthContext), LoginScreen and OTPVerification are *)
(* modelled as asynchronous handlers running against the identity          *)
(* provider (supabase.auth) and the profile store.  Every `await` of a     *)
(* handler is a point where other handlers, timers and listener callbacks  *)
(* may run; the synchronous code between two awaits is one step.           *)
(*                                                                         *)
(* The identity provider calls the onAuthStateChange listener when it      *)
(* changes the session: the synchronous prefix of the listener is part of  *)
(* the step that changes the session, its asynchronous remainder is a task *)
(* of its own.                                                             *)
(*                                                                         *)
(* AppNavigator renders LoadingScreen while `loading` is set and the       *)
(* authenticated stack once `user` is set; in both cases the login screen  *)
(* is unmounted and its component state is lost.  Handlers of the          *)
(* unmounted screen that are still awaiting an answer go on running; what  *)
(* they do to the provider happens, what they set on the screen does not.  *)
(***************************************************************************)
EXTENDS Naturals, Sequences, FiniteSets, TLC

(* ---- bounds ---------------------------------------------------------- *)

\* in-flight asynchronous continuations (listener lookups, fetchUserData)
MaxTasks == 2
\* handlers of the screens awaiting an answer at the same time
MaxInFlight == 2
\* setInterval timers of the resend cooldown alive at the same time
MaxTimers == 1
\* length of the cooldown window in ticks (the code uses 30 one-second ticks)
ResendCooldown == 2
\* background refreshes of the access token of one session
MaxRefresh == 1
\* codes of one batch of backup codes (generate_backup_codes makes 8)
BatchSize == 2
\* last second of the clock
MaxNow == 31
MaxRows == 2          \* rows of pkr_withdrawals
MaxWithdrawCalls == 2 \* handleWithdraw calls in flight
MaxSettleCalls == 2   \* confirm/decline calls in flight
MaxAmount == 2        \* largest amount asked for, in units of Rs. 100
OpeningBalance == 2   \* pkr_balance before the first withdrawal, same units

(* ---- values ---------------------------------------------------------- *)

\* JavaScript null / an absent session
Null == <<>>
Some(x) == <<x>>

\* the account that logs in
Uid == "u1"

TaskKinds == {"lookup", "query", "found", "none"}

\* asynchronous handlers of the login screen and of its second-factor modal
Handlers == {"login", "verify", "resend", "otp"}

VARIABLES
    \* identity provider and profile store
    session,              \* supabase.auth session: Null or Some of a record
                          \* [user, amr: the step that established it,
                          \*  refreshes: of its access token]
    emailOtpIssued,       \* an email one-time code is outstanding
    twoFactorEnabled,     \* user_profile.two_factor_enabled of the account
    two_factor_secret,    \* user_profile.two_factor_secret: Null or Some(secret)
    backup_codes,         \* user_profile.backup_codes: Null or Some(array)
    now,                  \* the clock, in seconds
    \* AuthProvider
    user,                 \* useState user: Null or Some(profile)
    pending2FA,           \* useState pending2FA: Null or Some([userId, show])
    suppress2FA,          \* useState suppress2FA
    isBiometricLogin,     \* useState isBiometricLogin
    pending2FACredentials,\* module-level retained credentials
    loading,              \* useState loading
    tasks,                \* asynchronous continuations in flight, by position
    \* LoginScreen and its OTPVerification modal: component state
    showEmailOtpModal,
    showVerifyingOverlay,
    sendingEmailOtp,
    verifyingEmailOtp,
    resendSecondsLeft,
    timers,               \* running setInterval timers of the mounted screen
    otpCode,              \* otpCode / backupCode, the field showBackupCode selects
    isVerifying,
    detached,             \* handlers in flight whose screen was unmounted
    \* positions of the asynchronous handlers
    loginPc,              \* handleLogin
    verifyPc,             \* handleVerifyEmailOtp
    resendPc,             \* handleResendEmailOtp
    otpPc,                \* handleVerifyOTP
    completePc,           \* handle2FASuccess
    cancelPc,             \* cancel2FALogin
    signOutPc,            \* AuthProvider.signOut
    bioPc,                \* signInWithBiometric
    \* what the flow has done so far in this attempt
    emailVerified,        \* verifyOtp succeeded since the last handleLogin
    secondFactorResult,   \* of OTPVerification since then: "none", "passed",
                          \* or the last code refused when none was accepted
    \* a client of TwoFactorService
    call,                 \* TwoFactorService.verifyOTP in flight: its position,
                          \* its otp, and what the profile was when it began
    returned,             \* what the last verifyOTP returned: "none", "true",
                          \* "false"
    consumed,             \* backup codes of the stored batch that a verifyOTP
                          \* has succeeded with
    disabledSince,        \* disable_2fa ran and the profile was not written since
    \* a one-time code on its way from generation to verification
    totpToken,            \* Null or Some([secret, otp, at: second of generation])
    checked,              \* Null or Some([ret, at]) of the last verifyTOTP of it
    \* TwoFactorSetup screen
    setup,                \* [stage |-> "closed"], or the component state
    verifiedSecrets,      \* secrets a verifyTOTP of handleVerifyCode accepted a
                          \* code for since the screen was opened
    \* a client of useAuth() other than the login screen
    signIn2FAPc,          \* signInWith2FA
    complete2FAPc,        \* complete2FALogin
    complete2FAResult,    \* how the last complete2FALogin ended: "none",
                          \* "incomplete" (no pending2FA or no credentials),
                          \* "done", "failed"
    \* a call of handleResendEmailOtp that does not come from its button
    resendRefusal,        \* what the last call that found the cooldown running
                          \* told its caller: "none" before any such call,
                          \* "nothing" after a bare return
    \* BiometricService and the device's SecureStore
    vault,                \* [enabled: the flag item is 'true',
                          \*  credentials: Null or Some(password stored)]
    enableCall,           \* enableBiometric: position, password, result of the
                          \* challenge, what the last call returned
    disableCall,          \* disableBiometric: position, whether an
                          \* enableBiometric wrote while it ran, how it ended
    \* the screens of a signed-in user that ask for the second factor
    gateUser,             \* user of useAuth() as these screens read it: Null
                          \* or Some([two_factor_enabled])
    bankScreen,           \* UserBankAccounts: pendingDeleteId, show2FAModal
    editScreen,           \* AddEditBankAccount: pendingSaveData, show2FAModal
    otpRoute,             \* OTPVerificationScreen on the stack: Null or
                          \* Some(action)
    gatePerformed,        \* the last of delete, save, change-password that
                          \* was carried out: Null or Some([op, via, enabled]),
                          \* via "otp" after onSuccess and "direct" without,
                          \* enabled the profile's two_factor_enabled then
    \* the PKR wallet of the user and its withdrawals
    wallet,               \* wallets row: [pkr_balance, pkr_locked]
    pkr_withdrawals,      \* rows by id: [status, amount, settled: how many
                          \* confirm/decline calls on it returned true]
    withdrawCalls,        \* handleWithdraw in flight, by caller
    settleCalls           \* confirm_/decline_pkr_withdrawal in flight, by caller

serviceVars == <<call, returned, consumed, disabledSince>>
totpVars == <<totpToken, checked>>
setupVars == <<setup, verifiedSecrets>>
clientVars == <<signIn2FAPc, complete2FAPc, complete2FAResult>>
vaultVars == <<vault, enableCall, disableCall>>
\* what only the services beside authentication change
gateVars == <<gateUser, bankScreen, editScreen, otpRoute, gatePerformed>>
walletVars == <<wallet, pkr_withdrawals, withdrawCalls, settleCalls>>
beyondAuth == <<vaultVars, gateVars, walletVars>>
\* what no handler of the login flow changes
outsideLogin == <<twoFactorEnabled, two_factor_secret, now, serviceVars,
                  totpVars, setupVars, clientVars, resendRefusal, beyondAuth>>
providerVars == <<session, emailOtpIssued, backup_codes, outsideLogin>>
authVars == <<user, pending2FA, suppress2FA, isBiometricLogin,
              pending2FACredentials, loading, tasks>>
screenVars == <<showEmailOtpModal, showVerifyingOverlay, sendingEmailOtp,
                verifyingEmailOtp, resendSecondsLeft, timers, otpCode,
                isVerifying, detached>>
pcVars == <<loginPc, verifyPc, resendPc, otpPc, completePc, cancelPc,
            signOutPc, bioPc>>
historyVars == <<emailVerified, secondFactorResult>>
\* what only the login flow and the identity provider change
loginCore == <<session, emailOtpIssued, authVars, screenVars, pcVars,
               historyVars, clientVars, resendRefusal>>
loginVars == <<loginCore, beyondAuth>>
\* what authentication and the second factor are made of
authSide == <<loginCore, backup_codes, twoFactorEnabled, two_factor_secret,
              now, serviceVars, totpVars, setupVars>>
\* what signInWith2FA and complete2FALogin do not change
beyondClient == <<emailOtpIssued, backup_codes, twoFactorEnabled,
                  two_factor_secret, now, serviceVars, totpVars, setupVars,
                  suppress2FA, isBiometricLogin, pcVars, historyVars,
                  resendRefusal, beyondAuth>>
\* what no function of TwoFactorService called on its own changes
beyondService == <<loginVars, totpVars, setupVars>>
\* what the TwoFactorSetup screen does not change
beyondSetup == <<loginVars, totpVars, serviceVars, now>>
vars == <<providerVars, authVars, screenVars, pcVars, historyVars>>

(* ---- AppNavigator ------------------------------------------------------ *)

\* The unauthenticated stack (Landing, Login) is rendered.
LoginScreenMounted == user = Null /\ ~loading

HandlersInFlight ==
    {h \in Handlers :
        \/ h = "login" /\ loginPc # "idle"
        \/ h = "verify" /\ verifyPc # "idle"
        \/ h = "resend" /\ resendPc # "idle"
        \/ h = "otp" /\ otpPc # "idle"}

AllInFlight ==
    HandlersInFlight
      \cup (IF completePc # "idle" THEN {"complete"} ELSE {})
      \cup (IF cancelPc # "idle" THEN {"cancel"} ELSE {})
      \cup (IF signOutPc # "idle" THEN {"signOut"} ELSE {})
      \cup (IF bioPc # "idle" THEN {"bio"} ELSE {})

\* room for one more handler to be started
CanStart == Cardinality(AllInFlight) < MaxInFlight

\* Effect on the login screen of a render with the new user and loading:
\* if it was mounted and is not any more, its state is gone and the handlers
\* it started are detached from it.
Render ==
    IF LoginScreenMounted /\ ~(user' = Null /\ ~loading')
    THEN /\ showEmailOtpModal' = FALSE
         /\ showVerifyingOverlay' = FALSE
         /\ sendingEmailOtp' = FALSE
         /\ verifyingEmailOtp' = FALSE
         /\ resendSecondsLeft' = 0
         /\ timers' = 0
         /\ otpCode' = ""
         /\ isVerifying' = FALSE
         /\ detached' = detached \cup HandlersInFlight
    ELSE UNCHANGED screenVars

(* ---- AuthProvider: the auth-state listener --------------------------- *)

TaskCount(t) == t["lookup"] + t["query"] + t["found"] + t["none"]
AddTask(t, k) == [t EXCEPT ![k] = @ + 1]
MoveTask(t, from, to) == [t EXCEPT ![from] = @ - 1, ![to] = @ + 1]
DropTask(t, k) == [t EXCEPT ![k] = @ - 1]
\* room for one more asynchronous continuation
CanSpawn == TaskCount(tasks) < MaxTasks

\* The listener is created once, by the mount effect (dependency list []),
\* so the suppress2FA and isBiometricLogin it reads are those of the first
\* render, whatever setSuppress2FA / setIsBiometricLogin did since.
listenerSuppress2FA == FALSE
listenerIsBiometricLogin == FALSE

\* a listener that takes a token refresh for a sign-in
OnAuthStateChange_RefreshIsSignIn(event, sess, st) ==
    IF sess # Null
    THEN IF event = "USER_UPDATED"
         THEN st
         ELSE [st EXCEPT !.tasks = AddTask(@, "lookup")]
    ELSE [st EXCEPT !.user = Null, !.pending2FA = Null, !.loading = FALSE]

\* Synchronous prefix of the listener, from its entry to its first await (or
\* to its end).  st is [user, pending2FA, loading, tasks]; the result is st
\* after it.
OnAuthStateChange(event, sess, st) ==
    IF listenerSuppress2FA
    THEN st
    ELSE IF sess # Null
         THEN IF event \in {"TOKEN_REFRESHED", "USER_UPDATED"}
              THEN st
              ELSE [st EXCEPT !.tasks = AddTask(@, "lookup")]
         ELSE [st EXCEPT !.user = Null, !.pending2FA = Null,
                         !.loading = FALSE]

AuthState == [user |-> user, pending2FA |-> pending2FA, loading |-> loading,
              tasks |-> tasks]

\* a session as the provider issues it
NewSession(amr) == Some([user |-> Uid, amr |-> amr, refreshes |-> 0])

\* The provider establishes a session and notifies the listener.
ProviderSignedIn(amr, st) ==
    /\ session' = NewSession(amr)
    /\ LET after == OnAuthStateChange("SIGNED_IN", NewSession(amr), st)
       IN  /\ user' = after.user
           /\ pending2FA' = after.pending2FA
           /\ loading' = after.loading
           /\ tasks' = after.tasks

\* supabase.auth.signOut() answered.  Without an error the session is removed
\* and the listener notified; with an error (the { error } the call returns,
\* which AuthProvider.signOut rethrows) the session stays as it is.
ProviderSignedOut(ok, st) ==
    /\ session' = IF ok THEN Null ELSE session
    /\ LET after == IF ok THEN OnAuthStateChange("SIGNED_OUT", Null, st)
                    ELSE st
       IN  /\ user' = after.user
           /\ pending2FA' = after.pending2FA
           /\ loading' = after.loading
           /\ tasks' = after.tasks

\* The provider refreshed the access token of the session in the background
\* and notifies the listener with TOKEN_REFRESHED.
ProviderTokenRefreshed ==
    /\ session # Null
    /\ session[1].refreshes < MaxRefresh
    /\ session' = Some([session[1] EXCEPT !.refreshes = @ + 1])
    /\ LET after == OnAuthStateChange("TOKEN_REFRESHED",
                         Some([session[1] EXCEPT !.refreshes = @ + 1]),
                         AuthState)
       IN  /\ user' = after.user
           /\ pending2FA' = after.pending2FA
           /\ loading' = after.loading
           /\ tasks' = after.tasks
    /\ Render
    /\ UNCHANGED <<emailOtpIssued, backup_codes, outsideLogin, suppress2FA,
                   isBiometricLogin, pending2FACredentials, pcVars,
                   historyVars>>

\* The provider changed an attribute of the signed-in user (a password
\* change, say) and notifies the listener with USER_UPDATED.
ProviderUserUpdated ==
    /\ session # Null
    /\ LET after == OnAuthStateChange("USER_UPDATED", session, AuthState)
       IN  /\ user' = after.user
           /\ pending2FA' = after.pending2FA
           /\ loading' = after.loading
           /\ tasks' = after.tasks
    /\ Render
    /\ UNCHANGED <<providerVars, suppress2FA, isBiometricLogin,
                   pending2FACredentials, pcVars, historyVars>>

\* Policy "Users can read own profile" of user_profile (auth.uid() = uid):
\* a select returns the row only to a request made under the owner's session.
ProfileReadable == session # Null

\* a listener that asks for the second factor whatever the profile says
requires2FA_Always == TRUE

\* const requires2FA = profile?.two_factor_enabled || false
requires2FA == twoFactorEnabled

\* The 2FA decision of the listener, once the lookup of two_factor_enabled
\* has answered (ok) or failed (~ok, or .single() finding no readable row).
\* The task was created by a SIGNED_IN.  fetchUserData runs up to its query.
ListenerLookupDone(ok) ==
    /\ tasks["lookup"] > 0
    /\ IF ~(ok /\ ProfileReadable)
       THEN \* profileError: proceed without 2FA
            /\ tasks' = MoveTask(tasks, "lookup", "query")
            /\ loading' = TRUE
            /\ UNCHANGED pending2FA
       ELSE IF requires2FA /\ ~listenerIsBiometricLogin
            THEN /\ pending2FA' = Some([userId |-> Uid, show |-> TRUE])
                 /\ loading' = FALSE
                 /\ tasks' = DropTask(tasks, "lookup")
            ELSE /\ pending2FA' = Null
                 /\ loading' = TRUE
                 /\ tasks' = MoveTask(tasks, "lookup", "query")
    /\ UNCHANGED user
    /\ Render
    /\ UNCHANGED <<providerVars, suppress2FA, isBiometricLogin, pending2FACredentials, pcVars,
                   historyVars>>

\* fetchUserData: the query of the profile row.
FetchProfileQuery(ok) ==
    /\ tasks["query"] > 0
    /\ tasks' = MoveTask(tasks, "query",
                         IF ok /\ ProfileReadable THEN "found" ELSE "none")
    /\ UNCHANGED <<providerVars, user, pending2FA, suppress2FA, isBiometricLogin,
                   pending2FACredentials, loading, screenVars, pcVars,
                   historyVars>>

\* fetchUserData: setUser(userWithKYC) if the profile was found, else
\* setUser(null); finally setLoading(false).
FetchSetUser ==
    /\ \E k \in {"found", "none"} :
         /\ tasks[k] > 0
         /\ tasks' = DropTask(tasks, k)
         /\ user' = IF k = "found" THEN Some([uid |-> Uid, kind |-> "profile"])
                    ELSE Null
    /\ loading' = FALSE
    /\ Render
    /\ UNCHANGED <<providerVars, pending2FA, suppress2FA, isBiometricLogin,
                   pending2FACredentials, pcVars, historyVars>>

beginEmailOtpFlow == suppress2FA' = TRUE
endEmailOtpFlow == suppress2FA' = FALSE

(* ---- LoginScreen ------------------------------------------------------ *)

\* The handler still belongs to the mounted screen.
Attached(h) == h \notin detached

\* The login form can be pressed: the screen is mounted and no modal covers
\* the form.
LoginFormUsable ==
    /\ LoginScreenMounted
    /\ ~showEmailOtpModal
    /\ ~showVerifyingOverlay
    /\ pending2FA = Null

\* handleLogin, up to the await of signInWithPassword; p tells whether the
\* password typed is the account's.
HandleLoginStart(p) ==
    /\ LoginFormUsable
    /\ loginPc = "idle"
    /\ CanStart
    /\ beginEmailOtpFlow
    /\ showVerifyingOverlay' = TRUE
    /\ loginPc' = p
    /\ emailVerified' = FALSE
    /\ secondFactorResult' = "none"
    /\ UNCHANGED <<providerVars, user, pending2FA, isBiometricLogin,
                   pending2FACredentials,
                   loading, tasks, showEmailOtpModal, sendingEmailOtp,
                   verifyingEmailOtp, resendSecondsLeft, timers, otpCode,
                   isVerifying, detached, verifyPc, resendPc, otpPc,
                   completePc, cancelPc, signOutPc, bioPc>>

\* signInWithPassword answered: on an error the catch block runs, otherwise
\* the provider has a session and handleLogin awaits signOut.
HandleLoginSignedIn ==
    /\ loginPc \in {"right", "wrong"}
    /\ IF loginPc = "right"
       THEN /\ CanSpawn
            /\ ProviderSignedIn("password", AuthState)
            /\ loginPc' = "signOut"
            /\ UNCHANGED <<showVerifyingOverlay, detached>>
       ELSE /\ showVerifyingOverlay' =
                  IF Attached("login") THEN FALSE ELSE showVerifyingOverlay
            /\ loginPc' = "idle"
            /\ detached' = detached \ {"login"}
            /\ UNCHANGED <<session, user, pending2FA, loading, tasks>>
    /\ UNCHANGED <<emailOtpIssued, backup_codes, outsideLogin, suppress2FA, isBiometricLogin,
                   pending2FACredentials, showEmailOtpModal, sendingEmailOtp,
                   verifyingEmailOtp, resendSecondsLeft, timers, otpCode,
                   isVerifying, verifyPc, resendPc, otpPc, completePc,
                   cancelPc, signOutPc, bioPc, historyVars>>

\* signOut answered (its result is not looked at): endEmailOtpFlow, then the
\* email code is requested.
HandleLoginSignedOut(ok) ==
    /\ loginPc = "signOut"
    /\ ProviderSignedOut(ok, AuthState)
    /\ endEmailOtpFlow
    /\ sendingEmailOtp' = IF Attached("login") THEN TRUE ELSE sendingEmailOtp
    /\ loginPc' = "sendOtp"
    /\ UNCHANGED <<emailOtpIssued, backup_codes, outsideLogin, isBiometricLogin,
                   pending2FACredentials,
                   showEmailOtpModal, showVerifyingOverlay, verifyingEmailOtp,
                   resendSecondsLeft, timers, otpCode, isVerifying, detached,
                   verifyPc, resendPc, otpPc, completePc, cancelPc, signOutPc, bioPc,
                   historyVars>>

\* signInWithOtp answered: the email-code modal is shown and the resend
\* cooldown timer started, or the error is alerted.
HandleLoginOtpSent(ok) ==
    /\ loginPc = "sendOtp"
    /\ loginPc' = "idle"
    /\ detached' = detached \ {"login"}
    /\ emailOtpIssued' = IF ok THEN TRUE ELSE emailOtpIssued
    /\ IF Attached("login")
       THEN /\ sendingEmailOtp' = FALSE
            /\ showVerifyingOverlay' = FALSE
            /\ IF ok
               THEN /\ timers < MaxTimers
                    /\ showEmailOtpModal' = TRUE
                    /\ resendSecondsLeft' = ResendCooldown
                    /\ timers' = timers + 1
               ELSE UNCHANGED <<showEmailOtpModal, resendSecondsLeft, timers>>
       ELSE UNCHANGED <<sendingEmailOtp, showVerifyingOverlay,
                        showEmailOtpModal, resendSecondsLeft, timers>>
    /\ UNCHANGED <<session, backup_codes, outsideLogin, authVars, verifyingEmailOtp,
                   otpCode, isVerifying, verifyPc, resendPc, otpPc,
                   completePc, cancelPc, signOutPc, bioPc, historyVars>>

\* One tick of a cooldown timer: the interval clears itself when it sees the
\* counter at 1 or below.
TimerTick ==
    /\ timers > 0
    /\ IF resendSecondsLeft <= 1
       THEN /\ resendSecondsLeft' = 0
            /\ timers' = timers - 1
       ELSE /\ resendSecondsLeft' = resendSecondsLeft - 1
            /\ UNCHANGED timers
    /\ UNCHANGED <<providerVars, authVars, showEmailOtpModal,
                   showVerifyingOverlay, sendingEmailOtp, verifyingEmailOtp,
                   otpCode, isVerifying, detached, pcVars, historyVars>>

\* The email-code modal is on screen.
EmailModalUsable == LoginScreenMounted /\ showEmailOtpModal

\* handleVerifyEmailOtp, up to the await of verifyOtp; c tells whether the
\* six digits typed are the code that was sent.
HandleVerifyEmailOtpStart(c) ==
    /\ EmailModalUsable
    /\ ~verifyingEmailOtp
    /\ verifyPc = "idle"
    /\ CanStart
    /\ verifyPc' = c
    /\ verifyingEmailOtp' = TRUE
    /\ UNCHANGED <<providerVars, authVars, showEmailOtpModal,
                   showVerifyingOverlay, sendingEmailOtp, resendSecondsLeft,
                   timers, otpCode, isVerifying, detached, loginPc, resendPc,
                   otpPc, completePc, cancelPc, signOutPc, bioPc, historyVars>>

\* verifyOtp answered: with the outstanding code the provider establishes a
\* session and the modal is closed; otherwise the error is alerted.
HandleVerifyEmailOtpDone ==
    /\ verifyPc # "idle"
    /\ verifyPc' = "idle"
    /\ detached' = detached \ {"verify"}
    /\ verifyingEmailOtp' =
           IF Attached("verify") THEN FALSE ELSE verifyingEmailOtp
    /\ IF verifyPc = "right" /\ emailOtpIssued
       THEN /\ CanSpawn
            /\ ProviderSignedIn("otp", AuthState)
            /\ emailOtpIssued' = FALSE
            /\ showEmailOtpModal' =
                   IF Attached("verify") THEN FALSE ELSE showEmailOtpModal
            /\ emailVerified' = TRUE
       ELSE UNCHANGED <<session, user, pending2FA, loading, tasks,
                        emailOtpIssued, showEmailOtpModal, emailVerified>>
    /\ UNCHANGED <<backup_codes, outsideLogin, suppress2FA, isBiometricLogin, pending2FACredentials,
                   showVerifyingOverlay, sendingEmailOtp, resendSecondsLeft,
                   timers, otpCode, isVerifying, loginPc, resendPc, otpPc,
                   completePc, cancelPc, signOutPc, bioPc, secondFactorResult>>

\* handleResendEmailOtp, up to the await of signInWithOtp.  The button is
\* disabled while a code is being sent or the cooldown runs.
HandleResendEmailOtpStart ==
    /\ EmailModalUsable
    /\ ~sendingEmailOtp
    /\ resendSecondsLeft = 0
    /\ resendPc = "idle"
    /\ CanStart
    /\ sendingEmailOtp' = TRUE
    /\ resendPc' = "sending"
    /\ UNCHANGED <<providerVars, authVars, showEmailOtpModal,
                   showVerifyingOverlay, verifyingEmailOtp, resendSecondsLeft,
                   timers, otpCode, isVerifying, detached, loginPc, verifyPc,
                   otpPc, completePc, cancelPc, signOutPc, bioPc, historyVars>>

\* handleResendEmailOtp called while the cooldown runs: `if
\* (resendSecondsLeft > 0) return`.  The button does not make this call, it
\* is disabled then.
HandleResendEmailOtpCooling ==
    /\ EmailModalUsable
    /\ resendSecondsLeft > 0
    /\ resendRefusal' = "nothing"
    /\ UNCHANGED <<session, emailOtpIssued, backup_codes, twoFactorEnabled,
                   two_factor_secret, now, serviceVars, totpVars, setupVars,
                   clientVars, authVars, screenVars, pcVars, historyVars,
                   beyondAuth>>

\* signInWithOtp of the resend answered: a new cooldown and timer, or the
\* error alert.
HandleResendEmailOtpDone(ok) ==
    /\ resendPc = "sending"
    /\ resendPc' = "idle"
    /\ detached' = detached \ {"resend"}
    /\ emailOtpIssued' = IF ok THEN TRUE ELSE emailOtpIssued
    /\ IF Attached("resend")
       THEN /\ sendingEmailOtp' = FALSE
            /\ IF ok
               THEN /\ timers < MaxTimers
                    /\ resendSecondsLeft' = ResendCooldown
                    /\ timers' = timers + 1
               ELSE UNCHANGED <<resendSecondsLeft, timers>>
       ELSE UNCHANGED <<sendingEmailOtp, resendSecondsLeft, timers>>
    /\ UNCHANGED <<session, backup_codes, outsideLogin, authVars, showEmailOtpModal,
                   showVerifyingOverlay, verifyingEmailOtp, otpCode,
                   isVerifying, loginPc, verifyPc, otpPc, completePc,
                   cancelPc, signOutPc, bioPc, historyVars>>

\* Cancel button of the email-code modal (disabled while verifying).
EmailModalCancel ==
    /\ EmailModalUsable
    /\ ~verifyingEmailOtp
    /\ showEmailOtpModal' = FALSE
    /\ UNCHANGED <<providerVars, authVars, showVerifyingOverlay,
                   sendingEmailOtp, verifyingEmailOtp, resendSecondsLeft,
                   timers, otpCode, isVerifying, detached, pcVars,
                   historyVars>>

\* onRequestClose of the email-code modal (hardware back).
EmailModalRequestClose ==
    /\ EmailModalUsable
    /\ showEmailOtpModal' = FALSE
    /\ UNCHANGED <<providerVars, authVars, showVerifyingOverlay,
                   sendingEmailOtp, verifyingEmailOtp, resendSecondsLeft,
                   timers, otpCode, isVerifying, detached, pcVars,
                   historyVars>>

(* ---- TwoFactorService -------------------------------------------------- *)

\* user_profile.two_factor_secret of the account that logs in, and another
\* secret generate_2fa_secret can draw
TwoFactorSecret == "JBSWY3DPEHPK3PXP"
OtherSecret == "KRSXG5CTMVRXEZLU"
Secrets == {TwoFactorSecret, OtherSecret}

\* Codes that can be typed: six-digit authenticator codes and eight-digit
\* backup codes, two of each.  They are named after what they are to the
\* account that logs in, at the time it logs in: "totpRight" is the code of
\* TwoFactorSecret in time step 0 (and "totpWrong" its code in step 1),
\* "backupRight" is the backup code stored for it and "backupWrong" is not.
TotpCodes == {"totpRight", "totpWrong"}
BackupCodes == {"backupRight", "backupWrong"}

\* period of the one-time codes in seconds (the default of TOTP.generate)
TimeStep == 30

\* the HMAC one-time code of a secret for a counter value
Hotp(secret, counter) ==
    LET k == IF secret = TwoFactorSecret THEN 0 ELSE 1
    IN  IF (k + counter) % 2 = 0 THEN "totpRight" ELSE "totpWrong"

\* a generator whose counter is the second, not the 30-second step
generateTOTP_EverySecond(secret) == Hotp(secret, now)

\* TOTP.generate(secret).otp at the moment of the call
generateTOTP(secret) == Hotp(secret, now \div TimeStep)

\* a comparison that accepts every token
verifyTOTP_AcceptsAny(secret, token) == TRUE

verifyTOTP(secret, token) == token = generateTOTP(secret)

\* array_remove(arr, x)
array_remove(arr, x) == SelectSeq(arr, LAMBDA c : c # x)

\* x = ANY(arr)
AnyOf(arr, x) == \E i \in 1..Len(arr) : arr[i] = x

\* SQL function verify_otp on a profile whose backup_codes column is stored:
\* what it returns and what it leaves in the column.  A stored backup code
\* is removed and TRUE returned; for everything else TRUE is returned at its
\* end.
verify_otp(otp, stored) ==
    IF stored # Null /\ AnyOf(stored[1], otp)
    THEN [ret |-> TRUE, backup_codes |-> Some(array_remove(stored[1], otp))]
    ELSE [ret |-> TRUE, backup_codes |-> stored]

\* TwoFactorService.verifyOTP from its rpc of verify_otp on: the answer of
\* the function, or false from the catch block when the rpc fails (ok false).
verifyOTP_rpc(otp, stored, ok) ==
    IF ok
    THEN verify_otp(otp, stored)
    ELSE [ret |-> FALSE, backup_codes |-> stored]

(* ---- OTPVerification (login) ------------------------------------------- *)

\* The second-factor modal is on screen.
OtpModalVisible ==
    /\ LoginScreenMounted
    /\ pending2FA # Null
    /\ pending2FA[1].show

\* handleVerifyOTP, up to its first await; c is the code typed, which the
\* handler keeps in its local `code`.
HandleVerifyOTPStart(c) ==
    /\ OtpModalVisible
    /\ ~isVerifying
    /\ otpPc = "idle"
    /\ completePc = "idle"
    /\ CanStart
    /\ otpCode' = c
    /\ isVerifying' = TRUE
    /\ otpPc' = c
    /\ UNCHANGED <<providerVars, authVars, showEmailOtpModal,
                   showVerifyingOverlay, sendingEmailOtp, verifyingEmailOtp,
                   resendSecondsLeft, timers, detached, loginPc, verifyPc,
                   resendPc, completePc, cancelPc, signOutPc, bioPc, historyVars>>

\* handleVerifyOTP after the secret was fetched (authenticator code) or the
\* verify_otp call answered (backup code).  A valid code calls onSuccess,
\* which is handle2FASuccess up to its await of getSession.
HandleVerifyOTPDone(ok) ==
    /\ otpPc # "idle"
    /\ otpPc' = "idle"
    /\ detached' = detached \ {"otp"}
    /\ isVerifying' = IF Attached("otp") THEN FALSE ELSE isVerifying
    /\ LET code == otpPc
           isTotp == code \in TotpCodes
           thrown == isTotp /\ ~(ok /\ ProfileReadable
                                    /\ two_factor_secret # Null)
           answer == verifyOTP_rpc(code, backup_codes, ok)
           isValid == IF isTotp THEN verifyTOTP(two_factor_secret[1], code)
                      ELSE answer.ret
       IN  /\ backup_codes' = IF isTotp THEN backup_codes
                              ELSE answer.backup_codes
           /\ IF thrown
              THEN UNCHANGED <<otpCode, completePc, secondFactorResult>>
              ELSE IF isValid
                   THEN /\ completePc' = "getSession"
                        /\ secondFactorResult' = "passed"
                        /\ UNCHANGED otpCode
                   ELSE /\ otpCode' = IF Attached("otp") THEN "" ELSE otpCode
                        /\ secondFactorResult' =
                               IF secondFactorResult = "passed" THEN "passed"
                               ELSE code
                        /\ UNCHANGED completePc
    /\ UNCHANGED <<session, emailOtpIssued, outsideLogin, authVars,
                   showEmailOtpModal,
                   showVerifyingOverlay, sendingEmailOtp, verifyingEmailOtp,
                   resendSecondsLeft, timers, loginPc, verifyPc, resendPc,
                   cancelPc, signOutPc, bioPc, emailVerified>>

\* a completion that signs in again with the password before it goes on
complete2FAUsingExistingSession_SignsInAgain ==
    /\ completePc = "getSession"
    /\ completePc' = "idle"
    /\ CanSpawn
    /\ session' = NewSession("password")
    /\ pending2FA' = Null
    /\ loading' = TRUE
    /\ tasks' = AddTask(tasks, "query")
    /\ UNCHANGED user
    /\ Render
    /\ UNCHANGED <<emailOtpIssued, backup_codes, outsideLogin, suppress2FA, isBiometricLogin,
                   pending2FACredentials, loginPc, verifyPc, resendPc, otpPc,
                   cancelPc, signOutPc, bioPc, historyVars>>

\* complete2FAUsingExistingSession after getSession answered; fetchUserData
\* runs up to its query.
complete2FAUsingExistingSession ==
    /\ completePc = "getSession"
    /\ completePc' = "idle"
    /\ IF session = Null
       THEN UNCHANGED <<pending2FA, loading, tasks>>
       ELSE /\ CanSpawn
            /\ pending2FA' = Null
            /\ loading' = TRUE
            /\ tasks' = AddTask(tasks, "query")
    /\ UNCHANGED user
    /\ Render
    /\ UNCHANGED <<providerVars, suppress2FA, isBiometricLogin, pending2FACredentials, loginPc,
                   verifyPc, resendPc, otpPc, cancelPc, signOutPc, bioPc,
                   historyVars>>

\* cancel2FALogin (Cancel / close of the second-factor modal), up to its
\* await of signOut.
cancel2FALoginStart ==
    /\ OtpModalVisible
    /\ ~isVerifying
    /\ cancelPc = "idle"
    /\ CanStart
    /\ pending2FA' = Null
    /\ pending2FACredentials' = Null
    /\ cancelPc' = "signOut"
    /\ UNCHANGED <<providerVars, user, suppress2FA, isBiometricLogin, loading, tasks,
                   screenVars, loginPc, verifyPc, resendPc, otpPc, completePc,
                   signOutPc, bioPc, historyVars>>

\* cancel2FALogin: signOut answered (its result is not looked at).
cancel2FALoginDone(ok) ==
    /\ cancelPc = "signOut"
    /\ cancelPc' = "idle"
    /\ ProviderSignedOut(ok, AuthState)
    /\ UNCHANGED <<emailOtpIssued, backup_codes, outsideLogin, suppress2FA, isBiometricLogin,
                   pending2FACredentials, screenVars, loginPc, verifyPc,
                   resendPc, otpPc, completePc, signOutPc, bioPc, historyVars>>

\* AuthProvider.signOut of a logged-in user, up to its await of the
\* provider's signOut.
signOutStart ==
    /\ user # Null
    /\ ~loading
    /\ signOutPc = "idle"
    /\ CanStart
    /\ loading' = TRUE
    /\ signOutPc' = "signOut"
    /\ UNCHANGED <<providerVars, user, pending2FA, suppress2FA, isBiometricLogin,
                   pending2FACredentials, tasks, screenVars, loginPc,
                   verifyPc, resendPc, otpPc, completePc, cancelPc, bioPc,
                   historyVars>>

\* AuthProvider.signOut: the provider answered.  On an error it rethrows and
\* clears nothing; finally setLoading(false).
signOutDone(ok) ==
    /\ signOutPc = "signOut"
    /\ signOutPc' = "idle"
    /\ session' = IF ok THEN Null ELSE session
    /\ LET after == IF ok
                    THEN OnAuthStateChange("SIGNED_OUT", Null, AuthState)
                    ELSE AuthState
       IN  /\ user' = IF ok THEN Null ELSE after.user
           /\ pending2FA' = after.pending2FA
           /\ tasks' = after.tasks
    /\ loading' = FALSE
    /\ pending2FACredentials' = IF ok THEN Null ELSE pending2FACredentials
    /\ Render
    /\ UNCHANGED <<emailOtpIssued, backup_codes, outsideLogin, suppress2FA, isBiometricLogin, loginPc,
                   verifyPc, resendPc, otpPc, completePc, cancelPc, bioPc,
                   historyVars>>

\* signInWithBiometric (pressed on the login form), up to its await of the
\* device challenge; setLoading(true) puts the loading screen in front.
signInWithBiometricStart ==
    /\ LoginFormUsable
    /\ bioPc = "idle"
    /\ CanStart
    /\ loading' = TRUE
    /\ bioPc' = "challenge"
    /\ UNCHANGED user
    /\ Render
    /\ UNCHANGED <<providerVars, pending2FA, suppress2FA, isBiometricLogin,
                   pending2FACredentials, tasks, loginPc, verifyPc, resendPc,
                   otpPc, completePc, cancelPc, signOutPc, historyVars>>

\* BiometricService.authenticateWithBiometric answered: without credentials
\* signInWithBiometric returns false; with them it sets isBiometricLogin and
\* awaits signInWithPassword.
signInWithBiometricChallenged(ok) ==
    /\ bioPc = "challenge"
    /\ IF ok
       THEN /\ isBiometricLogin' = TRUE
            /\ bioPc' = "signIn"
            /\ UNCHANGED loading
       ELSE /\ bioPc' = "idle"
            /\ loading' = FALSE
            /\ UNCHANGED isBiometricLogin
    /\ UNCHANGED user
    /\ Render
    /\ UNCHANGED <<providerVars, pending2FA, suppress2FA,
                   pending2FACredentials, tasks, loginPc, verifyPc, resendPc,
                   otpPc, completePc, cancelPc, signOutPc, historyVars>>

\* signInWithPassword with the stored credentials answered.  On an error the
\* flag is reset and false returned; otherwise the provider has a session
\* (the listener was notified) and fetchUserData runs up to its query.
signInWithBiometricSignedIn(ok) ==
    /\ bioPc = "signIn"
    /\ IF ok
       THEN /\ CanSpawn
            /\ session' = NewSession("biometric")
            /\ LET after == OnAuthStateChange("SIGNED_IN",
                                 NewSession("biometric"), AuthState)
               IN  /\ user' = after.user
                   /\ pending2FA' = after.pending2FA
                   /\ tasks' = after.tasks
            /\ loading' = TRUE
            /\ bioPc' = "query"
            /\ UNCHANGED isBiometricLogin
       ELSE /\ isBiometricLogin' = FALSE
            /\ loading' = FALSE
            /\ bioPc' = "idle"
            /\ UNCHANGED <<session, user, pending2FA, tasks>>
    /\ Render
    /\ UNCHANGED <<emailOtpIssued, backup_codes, outsideLogin, suppress2FA,
                   pending2FACredentials, loginPc, verifyPc, resendPc, otpPc,
                   completePc, cancelPc, signOutPc, historyVars>>

\* fetchUserData called by signInWithBiometric: the query of the profile row.
signInWithBiometricQuery(ok) ==
    /\ bioPc = "query"
    /\ bioPc' = IF ok /\ ProfileReadable THEN "found" ELSE "none"
    /\ UNCHANGED <<providerVars, authVars, screenVars, loginPc, verifyPc,
                   resendPc, otpPc, completePc, cancelPc, signOutPc,
                   historyVars>>

\* fetchUserData sets the user (or null) and returns; signInWithBiometric
\* resets the flag and returns true; finally setLoading(false).
signInWithBiometricDone ==
    /\ bioPc \in {"found", "none"}
    /\ bioPc' = "idle"
    /\ user' = IF bioPc = "found" THEN Some([uid |-> Uid, kind |-> "profile"])
               ELSE Null
    /\ isBiometricLogin' = FALSE
    /\ loading' = FALSE
    /\ Render
    /\ UNCHANGED <<providerVars, pending2FA, suppress2FA,
                   pending2FACredentials, tasks, loginPc, verifyPc, resendPc,
                   otpPc, completePc, cancelPc, signOutPc, historyVars>>

(* ---- AuthProvider: signInWith2FA and complete2FALogin ----------------- *)

\* signInWith2FA(email, password), up to its await of signInWithPassword: the
\* credentials are retained; p tells whether the password is the account's.
signInWith2FAStart(p) ==
    /\ signIn2FAPc = "idle"
    /\ pending2FACredentials' = Some([email |-> Uid, password |-> p])
    /\ signIn2FAPc' = p
    /\ UNCHANGED <<session, user, pending2FA, loading, tasks, screenVars,
                   complete2FAPc, complete2FAResult, beyondClient>>

\* signInWith2FA: signInWithPassword answered; on an error the retained
\* credentials are cleared, otherwise the listener takes over.
signInWith2FADone ==
    /\ signIn2FAPc # "idle"
    /\ signIn2FAPc' = "idle"
    /\ IF signIn2FAPc = "right"
       THEN /\ CanSpawn
            /\ ProviderSignedIn("password", AuthState)
            /\ UNCHANGED pending2FACredentials
       ELSE /\ pending2FACredentials' = Null
            /\ UNCHANGED <<session, user, pending2FA, loading, tasks>>
    /\ Render
    /\ UNCHANGED <<complete2FAPc, complete2FAResult, beyondClient>>

\* complete2FALogin, up to its await of signInWithPassword.  Without
\* pending2FA or without retained credentials it logs an error and returns.
complete2FALoginStart ==
    /\ complete2FAPc = "idle"
    /\ IF pending2FA # Null /\ pending2FACredentials # Null
       THEN /\ pending2FA' = Null
            /\ complete2FAPc' = pending2FACredentials[1].password
            /\ complete2FAResult' = "none"
       ELSE /\ complete2FAResult' = "incomplete"
            /\ UNCHANGED <<pending2FA, complete2FAPc>>
    /\ UNCHANGED <<session, user, pending2FACredentials, loading, tasks,
                   screenVars, signIn2FAPc, beyondClient>>

\* complete2FALogin: signInWithPassword with the retained credentials
\* answered; they are cleared.  On an error the catch block clears
\* pending2FA and awaits signOut.
complete2FALoginSignedIn ==
    /\ complete2FAPc \in {"right", "wrong"}
    /\ pending2FACredentials' = Null
    /\ IF complete2FAPc = "right"
       THEN /\ CanSpawn
            /\ ProviderSignedIn("password", AuthState)
            /\ complete2FAPc' = "setUser"
       ELSE /\ pending2FA' = Null
            /\ complete2FAPc' = "signOut"
            /\ UNCHANGED <<session, user, loading, tasks>>
    /\ Render
    /\ UNCHANGED <<signIn2FAPc, complete2FAResult, beyondClient>>

\* complete2FALogin: setUser(minimalUser), setLoading(false), then the wait
\* before fetchUserData(user.id, false).
complete2FALoginSetUser ==
    /\ complete2FAPc = "setUser"
    /\ user' = Some([uid |-> Uid, kind |-> "minimal"])
    /\ loading' = FALSE
    /\ complete2FAPc' = "query"
    /\ Render
    /\ UNCHANGED <<session, pending2FA, pending2FACredentials, tasks,
                   signIn2FAPc, complete2FAResult, beyondClient>>

\* fetchUserData(user.id, false) called by complete2FALogin: the query of
\* the profile row, then setUser of what was found.
complete2FALoginFetched(ok) ==
    /\ complete2FAPc = "query"
    /\ user' = IF ok /\ ProfileReadable
               THEN Some([uid |-> Uid, kind |-> "profile"])
               ELSE Null
    /\ complete2FAPc' = "idle"
    /\ complete2FAResult' = "done"
    /\ UNCHANGED loading
    /\ Render
    /\ UNCHANGED <<session, pending2FA, pending2FACredentials, tasks,
                   signIn2FAPc, beyondClient>>

\* complete2FALogin: the signOut of the catch block answered (its result is
\* not looked at) and the error is rethrown.
complete2FALoginFailed(ok) ==
    /\ complete2FAPc = "signOut"
    /\ ProviderSignedOut(ok, AuthState)
    /\ complete2FAPc' = "idle"
    /\ complete2FAResult' = "failed"
    /\ Render
    /\ UNCHANGED <<pending2FACredentials, signIn2FAPc, beyondClient>>

(* ---- BiometricService -------------------------------------------------- *)

Passwords == {"pw1", "pw2"}

ChallengeResults == {"success", "failed", "threw"}

\* a check of the challenge that lets every result through
ChallengePasses_Any(result) == TRUE

\* authenticateAsync resolved with result.success (it did not throw)
ChallengePasses(result) == result = "success"

EnableIdle(ret) ==
    [pc |-> "idle", password |-> Null, challenge |-> "none", returned |-> ret]

DisableIdle(end) == [pc |-> "idle", overlapped |-> FALSE, ended |-> end]

\* a write of enableBiometric happens while a disableBiometric runs
Overlap ==
    IF disableCall.pc = "idle"
    THEN disableCall
    ELSE [disableCall EXCEPT !.overlapped = TRUE]

\* enableBiometric(email, password) up to its await of authenticateAsync;
\* without biometrics available it returns false.
enableBiometricStart(password, isAvailable) ==
    /\ enableCall.pc = "idle"
    /\ enableCall' = IF isAvailable
                     THEN [pc |-> "challenge", password |-> Some(password),
                           challenge |-> "none", returned |-> "none"]
                     ELSE EnableIdle("false")
    /\ UNCHANGED <<vault, disableCall, authSide, gateVars,
                   walletVars>>

\* enableBiometric: the device challenge answered; anything but success
\* returns false (a throw goes through the catch block).
enableBiometricChallenged(result) ==
    /\ enableCall.pc = "challenge"
    /\ enableCall' = IF ChallengePasses(result)
                     THEN [enableCall EXCEPT !.pc = "credentials",
                                             !.challenge = result]
                     ELSE [EnableIdle("false") EXCEPT !.challenge = result]
    /\ UNCHANGED <<vault, disableCall, authSide, gateVars,
                   walletVars>>

\* enableBiometric: setItemAsync of the credentials; when it throws the catch
\* block returns false.
enableBiometricCredentials(ok) ==
    /\ enableCall.pc = "credentials"
    /\ IF ok
       THEN /\ vault' = [vault EXCEPT !.credentials = enableCall.password]
            /\ enableCall' = [enableCall EXCEPT !.pc = "flag"]
            /\ disableCall' = Overlap
       ELSE /\ enableCall' = [EnableIdle("false") EXCEPT
                                 !.challenge = enableCall.challenge]
            /\ UNCHANGED <<vault, disableCall>>
    /\ UNCHANGED <<authSide, gateVars,
                   walletVars>>

\* enableBiometric: setItemAsync of the enabled flag, then return true; when
\* it throws the catch block returns false.
enableBiometricFlag(ok) ==
    /\ enableCall.pc = "flag"
    /\ IF ok
       THEN /\ vault' = [vault EXCEPT !.enabled = TRUE]
            /\ disableCall' = Overlap
       ELSE UNCHANGED <<vault, disableCall>>
    /\ enableCall' = [EnableIdle(IF ok THEN "true" ELSE "false") EXCEPT
                        !.challenge = enableCall.challenge]
    /\ UNCHANGED <<authSide, gateVars,
                   walletVars>>

\* disableBiometric up to its first await
disableBiometricStart ==
    /\ disableCall.pc = "idle"
    /\ disableCall' = [pc |-> "flag", overlapped |-> FALSE, ended |-> "none"]
    /\ UNCHANGED <<vault, enableCall, authSide, gateVars,
                   walletVars>>

\* disableBiometric: deleteItemAsync of the enabled flag; when it throws the
\* catch block logs and the function ends.
disableBiometricFlag(ok) ==
    /\ disableCall.pc = "flag"
    /\ IF ok
       THEN /\ vault' = [vault EXCEPT !.enabled = FALSE]
            /\ disableCall' = [disableCall EXCEPT !.pc = "credentials"]
       ELSE /\ disableCall' = [disableCall EXCEPT !.pc = "idle",
                                                  !.ended = "error"]
            /\ UNCHANGED vault
    /\ UNCHANGED <<enableCall, authSide, gateVars,
                   walletVars>>

\* disableBiometric: deleteItemAsync of the credentials
disableBiometricCredentials(ok) ==
    /\ disableCall.pc = "credentials"
    /\ vault' = IF ok THEN [vault EXCEPT !.credentials = Null] ELSE vault
    /\ disableCall' = [disableCall EXCEPT
                         !.pc = "idle",
                         !.ended = IF ok THEN "removed" ELSE "error"]
    /\ UNCHANGED <<enableCall, authSide, gateVars,
                   walletVars>>

(* ---- screens that ask for the second factor before they act ------------ *)

Closed == [pending |-> Null, show2FAModal |-> FALSE]

\* what these screens leave alone
beyondGate == <<loginCore, twoFactorEnabled, two_factor_secret, now,
                serviceVars, totpVars, setupVars, vaultVars, walletVars>>

\* handleVerifyOTP of OTPVerification on these screens, with code typed and
\* the request answered (ok) or not: whether onSuccess is called, and what
\* is left of the backup codes.
VerifyOutcome(code, ok) ==
    LET isTotp == code \in TotpCodes
        thrown == isTotp /\ ~(ok /\ two_factor_secret # Null)
        answer == verifyOTP_rpc(code, backup_codes, ok)
    IN  [isValid |-> IF thrown THEN FALSE
                     ELSE IF isTotp
                          THEN verifyTOTP(two_factor_secret[1], code)
                          ELSE answer.ret,
         backup_codes |-> IF isTotp THEN backup_codes
                          ELSE answer.backup_codes]

Performed(op, via) ==
    Some([op |-> op, via |-> via, enabled |-> twoFactorEnabled])

\* fetchUserData of AuthProvider (at login, or a pull-to-refresh of
\* AccountSettings or the home screen): setUser of the profile row, or
\* setUser(null), which takes the signed-in screens away.
gateFetchUserData(ok) ==
    /\ gateUser' = IF ok
                   THEN Some([two_factor_enabled |-> twoFactorEnabled])
                   ELSE Null
    /\ IF ok
       THEN UNCHANGED <<bankScreen, editScreen, otpRoute>>
       ELSE /\ bankScreen' = Closed
            /\ editScreen' = Closed
            /\ otpRoute' = Null
    /\ UNCHANGED <<gatePerformed, backup_codes, beyondGate>>

\* TwoFactorSetup.handleComplete: enable2FA on the profile; the user of
\* useAuth() is not fetched again.
gateSetupCompleted ==
    /\ gateUser # Null
    /\ ~gateUser[1].two_factor_enabled
    /\ twoFactorEnabled' = TRUE
    /\ two_factor_secret' = Some(TwoFactorSecret)
    /\ UNCHANGED <<backup_codes, gateVars, loginCore, now, serviceVars,
                   totpVars, setupVars, vaultVars, walletVars>>

\* user?.two_factor_enabled
Requires2FA(u) == u # Null /\ u[1].two_factor_enabled

\* UserBankAccounts.deleteBankAccount, Delete pressed in its alert; ok tells
\* whether the delete of performDelete succeeds.
deleteBankAccount(ok) ==
    /\ gateUser # Null
    /\ ~bankScreen.show2FAModal
    /\ IF Requires2FA(gateUser)
       THEN /\ bankScreen' = [pending |-> Some("acct"), show2FAModal |-> TRUE]
            /\ UNCHANGED gatePerformed
       ELSE /\ gatePerformed' = IF ok THEN Performed("delete", "direct")
                                ELSE gatePerformed
            /\ UNCHANGED bankScreen
    /\ UNCHANGED <<gateUser, editScreen, otpRoute, backup_codes, beyondGate>>

\* OTPVerification of UserBankAccounts: handleVerifyOTP, and on a valid code
\* handle2FASuccess with its performDelete.
bankVerifyOTP(code, ok, deleted) ==
    /\ gateUser # Null
    /\ bankScreen.show2FAModal
    /\ LET out == VerifyOutcome(code, ok)
       IN  /\ backup_codes' = out.backup_codes
           /\ IF out.isValid /\ bankScreen.pending # Null
              THEN /\ bankScreen' = Closed
                   /\ gatePerformed' = IF deleted
                                       THEN Performed("delete", "otp")
                                       ELSE gatePerformed
              ELSE UNCHANGED <<bankScreen, gatePerformed>>
    /\ UNCHANGED <<gateUser, editScreen, otpRoute, beyondGate>>

\* UserBankAccounts.handle2FACancel
bankHandle2FACancel ==
    /\ gateUser # Null
    /\ bankScreen.show2FAModal
    /\ bankScreen' = Closed
    /\ UNCHANGED <<gateUser, editScreen, otpRoute, gatePerformed,
                   backup_codes, beyondGate>>

\* AddEditBankAccount.handleSave with the form filled in; ok tells whether
\* performSave gets through.
handleSave(ok) ==
    /\ gateUser # Null
    /\ ~editScreen.show2FAModal
    /\ IF Requires2FA(gateUser)
       THEN /\ editScreen' = [pending |-> Some("form"), show2FAModal |-> TRUE]
            /\ UNCHANGED gatePerformed
       ELSE /\ gatePerformed' = IF ok THEN Performed("save", "direct")
                                ELSE gatePerformed
            /\ editScreen' = IF ok THEN Closed ELSE editScreen
    /\ UNCHANGED <<gateUser, bankScreen, otpRoute, backup_codes, beyondGate>>

\* OTPVerification of AddEditBankAccount: handleVerifyOTP, and on a valid
\* code handle2FASuccess with its performSave, which clears pendingSaveData
\* only when it got through.
editVerifyOTP(code, ok, saved) ==
    /\ gateUser # Null
    /\ editScreen.show2FAModal
    /\ LET out == VerifyOutcome(code, ok)
       IN  /\ backup_codes' = out.backup_codes
           /\ IF out.isValid
              THEN /\ editScreen' = [pending |-> IF saved THEN Null
                                                 ELSE editScreen.pending,
                                     show2FAModal |-> FALSE]
                   /\ gatePerformed' = IF saved
                                       THEN Performed("save", "otp")
                                       ELSE gatePerformed
              ELSE UNCHANGED <<editScreen, gatePerformed>>
    /\ UNCHANGED <<gateUser, bankScreen, otpRoute, beyondGate>>

\* AddEditBankAccount.handle2FACancel
editHandle2FACancel ==
    /\ gateUser # Null
    /\ editScreen.show2FAModal
    /\ editScreen' = Closed
    /\ UNCHANGED <<gateUser, bankScreen, otpRoute, gatePerformed,
                   backup_codes, beyondGate>>

\* AccountSettings.handleChangePassword
handleChangePassword ==
    /\ gateUser # Null
    /\ otpRoute = Null
    /\ IF Requires2FA(gateUser)
       THEN /\ otpRoute' = Some("change_password")
            /\ UNCHANGED gatePerformed
       ELSE /\ gatePerformed' = Performed("change_password", "direct")
            /\ UNCHANGED otpRoute
    /\ UNCHANGED <<gateUser, bankScreen, editScreen, backup_codes,
                   beyondGate>>

\* OTPVerificationScreen: handleVerifyOTP, and on a valid code handleSuccess
\* (goBack, then onSuccess, which navigates to ChangePassword).
routeVerifyOTP(code, ok) ==
    /\ gateUser # Null
    /\ otpRoute # Null
    /\ LET out == VerifyOutcome(code, ok)
       IN  /\ backup_codes' = out.backup_codes
           /\ IF out.isValid
              THEN /\ otpRoute' = Null
                   /\ gatePerformed' = Performed(otpRoute[1], "otp")
              ELSE UNCHANGED <<otpRoute, gatePerformed>>
    /\ UNCHANGED <<gateUser, bankScreen, editScreen, beyondGate>>

\* OTPVerificationScreen.handleClose: goBack
routeHandleClose ==
    /\ gateUser # Null
    /\ otpRoute # Null
    /\ otpRoute' = Null
    /\ UNCHANGED <<gateUser, bankScreen, editScreen, gatePerformed,
                   backup_codes, beyondGate>>

(* ---- WithdrawPKR and the SQL functions of pkr_withdrawals -------------- *)

Amounts == 1..MaxAmount

Idle == [pc |-> "idle"]

\* what withdrawals leave alone
beyondWallet == <<authSide, vaultVars, gateVars>>

RECURSIVE SumPending(_, _)
\* sum of the amounts of the first n rows that are pending
SumPending(rows, n) ==
    IF n = 0 THEN 0
    ELSE SumPending(rows, n - 1)
         + (IF rows[n].status = "pending" THEN rows[n].amount ELSE 0)

\* handleWithdraw up to its rpc of process_pkr_withdrawal; the screen
\* refuses an amount above the balance it shows.
handleWithdrawStart(c, withdrawal_amount) ==
    /\ withdrawCalls[c].pc = "idle"
    /\ withdrawal_amount <= wallet.pkr_balance
    /\ withdrawCalls' = [withdrawCalls EXCEPT
                           ![c] = [pc |-> "rpc", amount |-> withdrawal_amount]]
    /\ UNCHANGED <<wallet, pkr_withdrawals, settleCalls, beyondWallet>>

\* process_pkr_withdrawal: SELECT pkr_balance, pkr_locked INTO
\* current_balance, current_locked
process_pkr_withdrawalSelect(c) ==
    /\ withdrawCalls[c].pc = "rpc"
    /\ withdrawCalls' = [withdrawCalls EXCEPT
                           ![c] = [pc |-> "selected",
                                   amount |-> withdrawCalls[c].amount,
                                   current_balance |-> wallet.pkr_balance]]
    /\ UNCHANGED <<wallet, pkr_withdrawals, settleCalls, beyondWallet>>

\* process_pkr_withdrawal: the check of current_balance, then the UPDATE of
\* the row as it is now; handleWithdraw stops when false comes back.
process_pkr_withdrawalUpdate(c) ==
    /\ withdrawCalls[c].pc = "selected"
    /\ IF withdrawCalls[c].current_balance < withdrawCalls[c].amount
       THEN /\ withdrawCalls' = [withdrawCalls EXCEPT ![c] = Idle]
            /\ UNCHANGED wallet
       ELSE /\ wallet' =
                  [pkr_balance |-> wallet.pkr_balance - withdrawCalls[c].amount,
                   pkr_locked |-> wallet.pkr_locked + withdrawCalls[c].amount]
            /\ withdrawCalls' = [withdrawCalls EXCEPT
                                   ![c] = [pc |-> "insert",
                                           amount |-> withdrawCalls[c].amount]]
    /\ UNCHANGED <<pkr_withdrawals, settleCalls, beyondWallet>>

\* handleWithdraw: the insert into pkr_withdrawals answered; on an error it
\* alerts and returns.
handleWithdrawInsert(c, ok) ==
    /\ withdrawCalls[c].pc = "insert"
    /\ IF ok
       THEN /\ Len(pkr_withdrawals) < MaxRows
            /\ pkr_withdrawals' =
                  Append(pkr_withdrawals,
                         [status |-> "pending",
                          amount |-> withdrawCalls[c].amount,
                          settled |-> 0])
       ELSE UNCHANGED pkr_withdrawals
    /\ withdrawCalls' = [withdrawCalls EXCEPT ![c] = Idle]
    /\ UNCHANGED <<wallet, settleCalls, beyondWallet>>

\* confirm_pkr_withdrawal(withdrawal_id) or decline_pkr_withdrawal called
settleStart(a, fn, withdrawal_id) ==
    /\ settleCalls[a].pc = "idle"
    /\ withdrawal_id \in 1..Len(pkr_withdrawals)
    /\ settleCalls' = [settleCalls EXCEPT
                         ![a] = [pc |-> "called", fn |-> fn,
                                 withdrawal_id |-> withdrawal_id]]
    /\ UNCHANGED <<wallet, pkr_withdrawals, withdrawCalls, beyondWallet>>

\* SELECT * INTO withdrawal_record ... WHERE id = withdrawal_id AND status =
\* 'pending'; IF NOT FOUND THEN RETURN false
settleSelect(a) ==
    /\ settleCalls[a].pc = "called"
    /\ LET row == pkr_withdrawals[settleCalls[a].withdrawal_id]
       IN  settleCalls' =
             [settleCalls EXCEPT
                ![a] = IF row.status = "pending"
                       THEN [pc |-> "found", fn |-> settleCalls[a].fn,
                             withdrawal_id |-> settleCalls[a].withdrawal_id,
                             withdrawal_record |-> row]
                       ELSE Idle]
    /\ UNCHANGED <<wallet, pkr_withdrawals, withdrawCalls, beyondWallet>>

\* the two UPDATEs of confirm_pkr_withdrawal (status completed, pkr_locked
\* less the amount) or of decline_pkr_withdrawal (status declined, the
\* amount back from pkr_locked to pkr_balance), then RETURN true
settleUpdate(a) ==
    /\ settleCalls[a].pc = "found"
    /\ LET id == settleCalls[a].withdrawal_id
           amount == settleCalls[a].withdrawal_record.amount
           confirm == settleCalls[a].fn = "confirm_pkr_withdrawal"
       IN  /\ pkr_withdrawals' =
                 [pkr_withdrawals EXCEPT
                    ![id].status = IF confirm THEN "completed" ELSE "declined",
                    ![id].settled = @ + 1]
           /\ wallet' =
                 [pkr_balance |-> IF confirm THEN wallet.pkr_balance
                                  ELSE wallet.pkr_balance + amount,
                  pkr_locked |-> wallet.pkr_locked - amount]
    /\ settleCalls' = [settleCalls EXCEPT ![a] = Idle]
    /\ UNCHANGED <<withdrawCalls, beyondWallet>>

(* ---- TwoFactorService and the SQL functions, called by a client ------ *)

\* rpc generate_2fa_secret: a random base32 secret is stored and returned.
generate_2fa_secret(secret) ==
    /\ two_factor_secret' = Some(secret)
    /\ disabledSince' = FALSE
    /\ UNCHANGED <<twoFactorEnabled, backup_codes, now, call, returned,
                   consumed, beyondService>>

\* TwoFactorService.enable2FA -> rpc enable_2fa(user_id, secret)
enable_2fa(secret) ==
    /\ twoFactorEnabled' = TRUE
    /\ two_factor_secret' = Some(secret)
    /\ disabledSince' = FALSE
    /\ UNCHANGED <<backup_codes, now, call, returned, consumed, beyondService>>

\* TwoFactorService.disable2FA -> rpc disable_2fa(user_id)
disable_2fa ==
    /\ twoFactorEnabled' = FALSE
    /\ two_factor_secret' = Null
    /\ backup_codes' = Null
    /\ disabledSince' = TRUE
    /\ consumed' = {}
    /\ UNCHANGED <<now, call, returned, beyondService>>

\* the arrays generate_backup_codes can build: each element is drawn on its
\* own (lpad(floor(random() * 100000000)::TEXT, 8, '0'))
Batches == [1..BatchSize -> BackupCodes]

\* TwoFactorService.generateBackupCodes -> rpc generate_backup_codes: the
\* batch is stored in place of the old one and returned.
generate_backup_codes(codes) ==
    /\ backup_codes' = Some(codes)
    /\ consumed' = {}
    /\ disabledSince' = FALSE
    /\ UNCHANGED <<twoFactorEnabled, two_factor_secret, now, call, returned,
                   beyondService>>

\* TwoFactorService.verifyOTP(userId, otp), up to its first await: the select
\* of the secret for a six-digit otp, the rpc otherwise.
verifyOTPStart(otp) ==
    /\ call.pc = "idle"
    /\ call' = [pc |-> IF otp \in TotpCodes THEN "select" ELSE "rpc",
                otp |-> otp,
                afterDisable |-> disabledSince]
    /\ returned' = "none"
    /\ UNCHANGED <<twoFactorEnabled, two_factor_secret, backup_codes, now,
                   consumed, disabledSince, beyondService>>

\* verifyOTP: the select answered (ok: with the row).  A secret whose
\* current code is the otp makes it return true; otherwise the rpc is made.
verifyOTPSelected(ok) ==
    /\ call.pc = "select"
    /\ IF /\ ok
          /\ two_factor_secret # Null
          /\ verifyTOTP(two_factor_secret[1], call.otp)
       THEN /\ returned' = "true"
            /\ call' = [pc |-> "idle"]
       ELSE /\ call' = [call EXCEPT !.pc = "rpc"]
            /\ UNCHANGED returned
    /\ UNCHANGED <<twoFactorEnabled, two_factor_secret, backup_codes, now,
                   consumed, disabledSince, beyondService>>

\* verifyOTP: the rpc verify_otp answered (ok: without an error); its data
\* is returned, or false from the catch block.
verifyOTPAnswered(ok) ==
    /\ call.pc = "rpc"
    /\ LET answer == verifyOTP_rpc(call.otp, backup_codes, ok)
       IN  /\ backup_codes' = answer.backup_codes
           /\ returned' = IF answer.ret THEN "true" ELSE "false"
           /\ consumed' = IF answer.backup_codes # backup_codes
                          THEN consumed \cup {call.otp}
                          ELSE consumed
    /\ call' = [pc |-> "idle"]
    /\ UNCHANGED <<twoFactorEnabled, two_factor_secret, now, disabledSince,
                   beyondService>>

(* ---- one-time codes over time ----------------------------------------- *)

\* The authenticator generates the current code of a secret.
TotpGenerate(secret) ==
    /\ totpToken' = Some([secret |-> secret, otp |-> generateTOTP(secret),
                      at |-> now])
    /\ checked' = Null
    /\ UNCHANGED <<twoFactorEnabled, two_factor_secret, backup_codes, now,
                   serviceVars, setupVars, loginVars>>

\* A second passes.
ClockTick ==
    /\ now < MaxNow
    /\ now' = now + 1
    /\ UNCHANGED <<twoFactorEnabled, two_factor_secret, backup_codes,
                   serviceVars, totpVars, setupVars, loginVars>>

\* TwoFactorService.verifyTOTP(secret, token) of the generated code.
TotpVerify ==
    /\ totpToken # Null
    /\ checked' = Some([ret |-> verifyTOTP(totpToken[1].secret,
                                           totpToken[1].otp),
                        at |-> now])
    /\ UNCHANGED <<twoFactorEnabled, two_factor_secret, backup_codes, now,
                   serviceVars, totpToken, setupVars, loginVars>>

(* ---- TwoFactorSetup ---------------------------------------------------- *)

\* The step effect: leaving step 2 (or entering another step) resets the
\* verification.
AtStep(st, n) ==
    [st EXCEPT !.step = n,
               !.isCodeVerified = IF n # 2 THEN FALSE ELSE @]

\* a Next button that does not look at isCodeVerified
handleNext_Unguarded ==
    /\ setup.stage = "ready"
    /\ ~setup.alert
    /\ setup' = IF setup.step < 3 THEN AtStep(setup, setup.step + 1)
                ELSE setup
    /\ UNCHANGED <<twoFactorEnabled, two_factor_secret, backup_codes,
                   verifiedSecrets, beyondSetup>>

\* The screen is mounted: setup2FA up to its await of generateSecret.
setup2FAStart ==
    /\ setup.stage = "closed"
    /\ setup' = [stage |-> "secret"]
    /\ verifiedSecrets' = {}
    /\ UNCHANGED <<twoFactorEnabled, two_factor_secret, backup_codes,
                   beyondSetup>>

\* setup2FA: generateSecret answered (rpc generate_2fa_secret); on an error
\* the screen is left.
setup2FASecret(ok, secret) ==
    /\ setup.stage = "secret"
    /\ IF ok
       THEN /\ two_factor_secret' = Some(secret)
            /\ setup' = [stage |-> "codes", secret |-> secret]
       ELSE /\ setup' = [stage |-> "closed"]
            /\ UNCHANGED two_factor_secret
    /\ UNCHANGED <<twoFactorEnabled, backup_codes, verifiedSecrets,
                   beyondSetup>>

\* setup2FA: generateBackupCodes answered (rpc generate_backup_codes); the
\* screen shows step 1, or is left on an error.
setup2FACodes(ok, codes) ==
    /\ setup.stage = "codes"
    /\ IF ok
       THEN /\ backup_codes' = Some(codes)
            /\ setup' = [stage |-> "ready", secret |-> setup.secret,
                         step |-> 1, isCodeVerified |-> FALSE,
                         isSettingUp |-> FALSE, alert |-> FALSE,
                         backupCodes |-> codes, pc |-> "idle"]
       ELSE /\ setup' = [stage |-> "closed"]
            /\ UNCHANGED backup_codes
    /\ UNCHANGED <<twoFactorEnabled, two_factor_secret, verifiedSecrets,
                   beyondSetup>>

\* handleNext: at step 2 without a verified code only an alert is shown.
handleNext ==
    /\ setup.stage = "ready"
    /\ ~setup.alert
    /\ setup' = IF setup.step = 2 /\ ~setup.isCodeVerified THEN setup
                ELSE IF setup.step < 3 THEN AtStep(setup, setup.step + 1)
                ELSE setup
    /\ UNCHANGED <<twoFactorEnabled, two_factor_secret, backup_codes,
                   verifiedSecrets, beyondSetup>>

\* handleBack: one step back, or out of the screen from step 1.
handleBack ==
    /\ setup.stage = "ready"
    /\ ~setup.alert
    /\ setup' = IF setup.step > 1 THEN AtStep(setup, setup.step - 1)
                ELSE [stage |-> "closed"]
    /\ UNCHANGED <<twoFactorEnabled, two_factor_secret, backup_codes,
                   verifiedSecrets, beyondSetup>>

\* handleVerifyCode with six digits typed at step 2 (the button is disabled
\* once a code was verified): a valid code sets isCodeVerified and shows the
\* alert whose Continue goes to step 3.
handleVerifyCode(verificationCode) ==
    /\ setup.stage = "ready"
    /\ ~setup.alert
    /\ setup.step = 2
    /\ ~setup.isCodeVerified
    /\ IF verifyTOTP(setup.secret, verificationCode)
       THEN /\ setup' = [setup EXCEPT !.isCodeVerified = TRUE,
                                      !.alert = TRUE]
            /\ verifiedSecrets' = verifiedSecrets \cup {setup.secret}
       ELSE UNCHANGED <<setup, verifiedSecrets>>
    /\ UNCHANGED <<twoFactorEnabled, two_factor_secret, backup_codes,
                   beyondSetup>>

\* Continue of the "Verification Successful!" alert: setStep(3).
VerifiedAlertContinue ==
    /\ setup.stage = "ready"
    /\ setup.alert
    /\ setup' = AtStep([setup EXCEPT !.alert = FALSE], 3)
    /\ UNCHANGED <<twoFactorEnabled, two_factor_secret, backup_codes,
                   verifiedSecrets, beyondSetup>>

\* handleComplete (the button of step 3), up to its await of enable2FA.
handleCompleteStart ==
    /\ setup.stage = "ready"
    /\ ~setup.alert
    /\ setup.step = 3
    /\ ~setup.isSettingUp
    /\ setup.pc = "idle"
    /\ setup' = [setup EXCEPT !.isSettingUp = TRUE, !.pc = "enable"]
    /\ UNCHANGED <<twoFactorEnabled, two_factor_secret, backup_codes,
                   verifiedSecrets, beyondSetup>>

\* handleComplete: enable2FA(user.uid, secret) answered; on an error the
\* catch block alerts and isSettingUp is reset.
handleCompleteEnabled(ok) ==
    /\ setup.stage = "ready"
    /\ setup.pc = "enable"
    /\ IF ok
       THEN /\ twoFactorEnabled' = TRUE
            /\ two_factor_secret' = Some(setup.secret)
            /\ setup' = [setup EXCEPT !.pc = "codes"]
       ELSE /\ setup' = [setup EXCEPT !.pc = "idle", !.isSettingUp = FALSE]
            /\ UNCHANGED <<twoFactorEnabled, two_factor_secret>>
    /\ UNCHANGED <<backup_codes, verifiedSecrets, beyondSetup>>

\* handleComplete: generateBackupCodes answered; the success alert leads out
\* of the screen, an error leaves it as it is.
handleCompleteCodes(ok, codes) ==
    /\ setup.stage = "ready"
    /\ setup.pc = "codes"
    /\ IF ok
       THEN /\ backup_codes' = Some(codes)
            /\ setup' = [stage |-> "closed"]
       ELSE /\ setup' = [setup EXCEPT !.pc = "idle", !.isSettingUp = FALSE]
            /\ UNCHANGED backup_codes
    /\ UNCHANGED <<twoFactorEnabled, two_factor_secret, verifiedSecrets,
                   beyondSetup>>

(* ---- the system --------------------------------------------------------- *)

Init ==
    /\ session = Null
    /\ emailOtpIssued = FALSE
    /\ twoFactorEnabled \in BOOLEAN
    /\ two_factor_secret =
           IF twoFactorEnabled THEN Some(TwoFactorSecret) ELSE Null
    /\ backup_codes =
           IF twoFactorEnabled THEN Some(<<"backupRight">>) ELSE Null
    /\ now = 0
    /\ call = [pc |-> "idle"]
    /\ returned = "none"
    /\ consumed = {}
    /\ disabledSince = FALSE
    /\ totpToken = Null
    /\ checked = Null
    /\ setup = [stage |-> "closed"]
    /\ verifiedSecrets = {}
    /\ resendRefusal = "none"
    /\ wallet = [pkr_balance |-> OpeningBalance, pkr_locked |-> 0]
    /\ pkr_withdrawals = <<>>
    /\ withdrawCalls = [c \in 1..MaxWithdrawCalls |-> Idle]
    /\ settleCalls = [a \in 1..MaxSettleCalls |-> Idle]
    /\ gateUser = Null
    /\ bankScreen = Closed
    /\ editScreen = Closed
    /\ otpRoute = Null
    /\ gatePerformed = Null
    /\ vault = [enabled |-> FALSE, credentials |-> Null]
    /\ enableCall = EnableIdle("none")
    /\ disableCall = DisableIdle("none")
    /\ signIn2FAPc = "idle"
    /\ complete2FAPc = "idle"
    /\ complete2FAResult = "none"
    /\ user = Null
    /\ pending2FA = Null
    /\ suppress2FA = FALSE
    /\ isBiometricLogin = FALSE
    /\ pending2FACredentials = Null
    /\ loading = FALSE
    /\ tasks = [k \in TaskKinds |-> 0]
    /\ showEmailOtpModal = FALSE
    /\ showVerifyingOverlay = FALSE
    /\ sendingEmailOtp = FALSE
    /\ verifyingEmailOtp = FALSE
    /\ resendSecondsLeft = 0
    /\ timers = 0
    /\ otpCode = ""
    /\ isVerifying = FALSE
    /\ detached = {}
    /\ loginPc = "idle"
    /\ verifyPc = "idle"
    /\ resendPc = "idle"
    /\ otpPc = "idle"
    /\ completePc = "idle"
    /\ cancelPc = "idle"
    /\ signOutPc = "idle"
    /\ bioPc = "idle"
    /\ emailVerified = FALSE
    /\ secondFactorResult = "none"

Next ==
    \/ \E p \in {"right", "wrong"} : HandleLoginStart(p)
    \/ HandleLoginSignedIn
    \/ \E ok \in BOOLEAN : HandleLoginSignedOut(ok)
    \/ \E ok \in BOOLEAN : HandleLoginOtpSent(ok)
    \/ TimerTick
    \/ \E c \in {"right", "wrong"} : HandleVerifyEmailOtpStart(c)
    \/ HandleVerifyEmailOtpDone
    \/ HandleResendEmailOtpStart
    \/ \E ok \in BOOLEAN : HandleResendEmailOtpDone(ok)
    \/ EmailModalCancel
    \/ EmailModalRequestClose
    \/ \E ok \in BOOLEAN : ListenerLookupDone(ok)
    \/ \E ok \in BOOLEAN : FetchProfileQuery(ok)
    \/ FetchSetUser
    \/ \E c \in TotpCodes \cup BackupCodes : HandleVerifyOTPStart(c)
    \/ \E ok \in BOOLEAN : HandleVerifyOTPDone(ok)
    \/ complete2FAUsingExistingSession
    \/ cancel2FALoginStart
    \/ \E ok \in BOOLEAN : cancel2FALoginDone(ok)
    \/ signOutStart
    \/ \E ok \in BOOLEAN : signOutDone(ok)
    \/ signInWithBiometricStart
    \/ \E ok \in BOOLEAN : signInWithBiometricChallenged(ok)
    \/ \E ok \in BOOLEAN : signInWithBiometricSignedIn(ok)
    \/ \E ok \in BOOLEAN : signInWithBiometricQuery(ok)
    \/ signInWithBiometricDone

Spec == Init /\ [][Next]_vars

\* The person presses Log in with the right password, once: having been sent
\* a code they go on with it.
PersonLogsIn ==
    /\ ~emailOtpIssued
    /\ ~emailVerified
    /\ HandleLoginStart("right")

\* The person types the authenticator code after the email code.
PersonTypesTotp ==
    /\ emailVerified
    /\ HandleVerifyOTPStart("totpRight")

\* A login in which nothing fails: the right password and codes are typed,
\* every request is answered without an error, nobody cancels.
ScenarioNext ==
    \/ PersonLogsIn
    \/ HandleLoginSignedIn
    \/ HandleLoginSignedOut(TRUE)
    \/ HandleLoginOtpSent(TRUE)
    \/ TimerTick
    \/ HandleVerifyEmailOtpStart("right")
    \/ HandleVerifyEmailOtpDone
    \/ ListenerLookupDone(TRUE)
    \/ FetchProfileQuery(TRUE)
    \/ FetchSetUser
    \/ PersonTypesTotp
    \/ HandleVerifyOTPDone(TRUE)
    \/ complete2FAUsingExistingSession

\* Every handler that was started is resumed when its request is answered,
\* every timer ticks, and the person at the screen goes on with the login.
ScenarioSpec ==
    /\ Init
    /\ [][ScenarioNext]_vars
    /\ WF_vars(PersonLogsIn)
    /\ WF_vars(HandleLoginSignedIn)
    /\ WF_vars(HandleLoginSignedOut(TRUE))
    /\ WF_vars(HandleLoginOtpSent(TRUE))
    /\ WF_vars(TimerTick)
    /\ WF_vars(HandleVerifyEmailOtpStart("right"))
    /\ WF_vars(HandleVerifyEmailOtpDone)
    /\ WF_vars(ListenerLookupDone(TRUE))
    /\ WF_vars(FetchProfileQuery(TRUE))
    /\ WF_vars(FetchSetUser)
    /\ WF_vars(PersonTypesTotp)
    /\ WF_vars(HandleVerifyOTPDone(TRUE))
    /\ WF_vars(complete2FAUsingExistingSession)

\* The login in which nothing fails, with the provider refreshing the token
\* or updating the user in the background at any moment a session exists.
BackgroundNext ==
    \/ ScenarioNext
    \/ ProviderTokenRefreshed
    \/ ProviderUserUpdated

BackgroundSpec == Init /\ [][BackgroundNext]_vars

\* A signed-in client that calls the functions of TwoFactorService in any
\* order.
ServiceNext ==
    \/ \E secret \in Secrets : generate_2fa_secret(secret)
    \/ \E secret \in Secrets : enable_2fa(secret)
    \/ disable_2fa
    \/ \E codes \in Batches : generate_backup_codes(codes)
    \/ \E otp \in TotpCodes \cup BackupCodes : verifyOTPStart(otp)
    \/ \E ok \in BOOLEAN : verifyOTPSelected(ok)
    \/ \E ok \in BOOLEAN : verifyOTPAnswered(ok)

ServiceSpec == Init /\ [][ServiceNext]_vars

\* Codes are generated and verified while time passes.
TotpNext ==
    \/ \E secret \in Secrets : TotpGenerate(secret)
    \/ ClockTick
    \/ TotpVerify

TotpSpec == Init /\ [][TotpNext]_vars

\* A signed-in user on the TwoFactorSetup screen.
SetupNext ==
    \/ setup2FAStart
    \/ \E ok \in BOOLEAN, secret \in Secrets : setup2FASecret(ok, secret)
    \/ \E ok \in BOOLEAN, codes \in Batches : setup2FACodes(ok, codes)
    \/ handleNext
    \/ handleBack
    \/ \E verificationCode \in TotpCodes : handleVerifyCode(verificationCode)
    \/ VerifiedAlertContinue
    \/ handleCompleteStart
    \/ \E ok \in BOOLEAN : handleCompleteEnabled(ok)
    \/ \E ok \in BOOLEAN, codes \in Batches : handleCompleteCodes(ok, codes)

SetupSpec == Init /\ [][SetupNext]_vars

\* A client of useAuth() that signs in with signInWith2FA and completes or
\* cancels the second factor with complete2FALogin and cancel2FALogin.
ClientNext ==
    \/ \E p \in {"right", "wrong"} : signInWith2FAStart(p)
    \/ signInWith2FADone
    \/ \E ok \in BOOLEAN : ListenerLookupDone(ok)
    \/ \E ok \in BOOLEAN : FetchProfileQuery(ok)
    \/ FetchSetUser
    \/ complete2FALoginStart
    \/ complete2FALoginSignedIn
    \/ complete2FALoginSetUser
    \/ \E ok \in BOOLEAN : complete2FALoginFetched(ok)
    \/ \E ok \in BOOLEAN : complete2FALoginFailed(ok)
    \/ cancel2FALoginStart
    \/ \E ok \in BOOLEAN : cancel2FALoginDone(ok)
    \/ signOutStart
    \/ \E ok \in BOOLEAN : signOutDone(ok)

ClientSpec == Init /\ [][ClientNext]_vars

\* The login with nothing failing, and handleResendEmailOtp called at any
\* time the email-code modal is on screen.
ResendNext ==
    \/ ScenarioNext
    \/ HandleResendEmailOtpStart
    \/ \E ok \in BOOLEAN : HandleResendEmailOtpDone(ok)
    \/ HandleResendEmailOtpCooling

ResendSpec == Init /\ [][ResendNext]_vars

\* Callers of BiometricService.enableBiometric and disableBiometric
VaultNext ==
    \/ \E password \in Passwords, isAvailable \in BOOLEAN :
          enableBiometricStart(password, isAvailable)
    \/ \E result \in ChallengeResults : enableBiometricChallenged(result)
    \/ \E ok \in BOOLEAN : enableBiometricCredentials(ok)
    \/ \E ok \in BOOLEAN : enableBiometricFlag(ok)
    \/ disableBiometricStart
    \/ \E ok \in BOOLEAN : disableBiometricFlag(ok)
    \/ \E ok \in BOOLEAN : disableBiometricCredentials(ok)

VaultSpec == Init /\ [][VaultNext]_vars

\* A signed-in user on UserBankAccounts, AddEditBankAccount and
\* AccountSettings.
GateNext ==
    \/ \E ok \in BOOLEAN : gateFetchUserData(ok)
    \/ gateSetupCompleted
    \/ \E ok \in BOOLEAN : deleteBankAccount(ok)
    \/ \E code \in TotpCodes \cup BackupCodes, ok, deleted \in BOOLEAN :
          bankVerifyOTP(code, ok, deleted)
    \/ bankHandle2FACancel
    \/ \E ok \in BOOLEAN : handleSave(ok)
    \/ \E code \in TotpCodes \cup BackupCodes, ok, saved \in BOOLEAN :
          editVerifyOTP(code, ok, saved)
    \/ editHandle2FACancel
    \/ handleChangePassword
    \/ \E code \in TotpCodes \cup BackupCodes, ok \in BOOLEAN :
          routeVerifyOTP(code, ok)
    \/ routeHandleClose

GateSpec == Init /\ [][GateNext]_vars

\* Users withdrawing and admins settling withdrawals, each call a
\* transaction of its own.
WalletNext ==
    \/ \E c \in 1..MaxWithdrawCalls, withdrawal_amount \in Amounts :
          handleWithdrawStart(c, withdrawal_amount)
    \/ \E c \in 1..MaxWithdrawCalls : process_pkr_withdrawalSelect(c)
    \/ \E c \in 1..MaxWithdrawCalls : process_pkr_withdrawalUpdate(c)
    \/ \E c \in 1..MaxWithdrawCalls, ok \in BOOLEAN :
          handleWithdrawInsert(c, ok)
    \/ \E a \in 1..MaxSettleCalls,
          fn \in {"confirm_pkr_withdrawal", "decline_pkr_withdrawal"},
          withdrawal_id \in 1..MaxRows : settleStart(a, fn, withdrawal_id)
    \/ \E a \in 1..MaxSettleCalls : settleSelect(a)
    \/ \E a \in 1..MaxSettleCalls : settleUpdate(a)

WalletSpec == Init /\ [][WalletNext]_vars

(* ---- properties of the login flow ---------------------------------- *)

\* C1: whenever handleLogin shows the email-code modal, the identity provider
\* holds no session (the session of the password check was signed out before
\* the code was requested).
C1_NoSessionWhenEmailModalShown ==
    [][(~showEmailOtpModal /\ showEmailOtpModal') => session' = Null]_vars

\* C2: while suppress2FA is set the listener handles no auth event (it starts
\* no lookup), and user is null in every state in which the email code of
\* the attempt has not been verified.
C2_ListenerSuppressedDuringEmailOtpFlow ==
    [][/\ suppress2FA => tasks'["lookup"] <= tasks["lookup"]
       /\ ~emailVerified' => user' = Null]_vars

\* C3: for an account with two_factor_enabled, user is null as long as no
\* second-factor verification of the attempt has succeeded.
C3_NoUserBeforeSecondFactor ==
    (twoFactorEnabled /\ secondFactorResult # "passed") => user = Null

\* C4: for an account without two_factor_enabled, pending2FA is never set,
\* and once the email code has been verified (the listener's lookup for that
\* sign-in is in flight) the user is eventually set under a session.
C4_ReachesSessionWithoutPrompt ==
    /\ [](~twoFactorEnabled => pending2FA = Null)
    /\ (~twoFactorEnabled /\ emailVerified /\ tasks["lookup"] > 0)
           ~> (user # Null /\ session # Null /\ pending2FA = Null)

\* a login of an account without two_factor_enabled that went through the
\* email code and has set the user
C4_Witness ==
    /\ ~twoFactorEnabled
    /\ emailVerified
    /\ user # Null
    /\ session # Null
    /\ pending2FA = Null

\* C5: for an account with two_factor_enabled, verifying the email code leads
\* to the shown second-factor prompt with user still null, and the right
\* authenticator code submitted after it leads to user set with pending2FA
\* cleared.
C5_ReachesPromptThenSession ==
    /\ (twoFactorEnabled /\ emailVerified /\ secondFactorResult # "passed"
          /\ tasks["lookup"] > 0)
           ~> (pending2FA = Some([userId |-> Uid, show |-> TRUE]) /\ user = Null)
    /\ (twoFactorEnabled /\ emailVerified /\ completePc = "getSession")
           ~> (user # Null /\ pending2FA = Null)

\* C6: pending2FA is set only in an attempt whose email code has been
\* verified.
C6_PromptOnlyAfterEmailCode ==
    [][(pending2FA = Null /\ pending2FA' # Null) => emailVerified']_vars

C9_CancelLeavesNoSession ==
    [][(cancelPc = "signOut" /\ cancelPc' = "idle")
         => /\ session' = Null
            /\ pending2FA' = Null
            /\ pending2FACredentials' = Null]_vars

\* C10: when a cancellation returns (of the email-code modal: the modal goes
\* away and nothing of the provider or of AuthProvider changes; or of the
\* second-factor prompt: cancel2FALogin completes) there is no session, no
\* running cooldown timer and no retained credential.
C10_CancelLeavesNothingOutstanding ==
    [][(\/ /\ showEmailOtpModal
            /\ ~showEmailOtpModal'
            /\ UNCHANGED <<providerVars, authVars>>
        \/ /\ cancelPc = "signOut"
            /\ cancelPc' = "idle")
         => /\ session' = Null
            /\ timers' = 0
            /\ pending2FACredentials' = Null]_vars

\* C11: under a session established by signInWithBiometric, pending2FA is
\* never a shown prompt (the biometric login bypasses the second factor), and
\* when signInWithBiometric returns true after its fetchUserData found the
\* profile the user is set.
C11_BiometricBypassesSecondFactor ==
    [][/\ (session' # Null /\ session'[1].amr = "biometric")
            => ~(pending2FA' # Null /\ pending2FA'[1].show)
       /\ (bioPc = "found" /\ bioPc' = "idle") => user' # Null]_vars

\* C12: a TOKEN_REFRESHED or USER_UPDATED event carrying a session makes the
\* listener change nothing and start nothing: in every state with a session,
\* and at every refresh of the token.  pending2FA becomes a shown prompt only
\* when a lookup started by a SIGNED_IN answers.
C12_RefreshNeverPrompts ==
    /\ [](session # Null =>
            \A e \in {"TOKEN_REFRESHED", "USER_UPDATED"} :
                OnAuthStateChange(e, session, AuthState) = AuthState)
    /\ [][/\ (session # Null /\ session' # Null
                 /\ session'[1].refreshes > session[1].refreshes)
              => UNCHANGED <<user, pending2FA, tasks, loading>>
          /\ (pending2FA' # pending2FA /\ pending2FA' # Null)
              => tasks'["lookup"] < tasks["lookup"]]_vars

\* the session of a user who passed the second factor had its token refreshed
C12_Witness ==
    /\ twoFactorEnabled
    /\ secondFactorResult = "passed"
    /\ user # Null
    /\ pending2FA = Null
    /\ session # Null
    /\ session[1].refreshes > 0

\* C19: when handleLogin ends because the password check failed, nothing of
\* the attempt is left: no retained credentials, no pending2FA, suppress2FA
\* reset, no session.
C19_FailedPasswordClearsAttempt ==
    [][(loginPc = "wrong" /\ loginPc' = "idle")
         => /\ pending2FACredentials' = Null
            /\ pending2FA' = Null
            /\ ~suppress2FA'
            /\ session' = Null]_vars

(* ---- properties of TwoFactorService ---------------------------------- *)

\* C13: a verifyOTP call whose otp is neither the current code of the stored
\* secret nor one of the stored backup codes returns false.
C13_WrongCodeReturnsFalse ==
    [][(/\ call.pc # "idle"
        /\ call'.pc = "idle"
        /\ ~(two_factor_secret # Null
               /\ call.otp = generateTOTP(two_factor_secret[1]))
        /\ ~(backup_codes # Null /\ AnyOf(backup_codes[1], call.otp)))
         => returned' = "false"]_vars

\* C14: a backup code verifyOTP has succeeded with is no longer stored, and
\* every later verifyOTP with it (that is not the current authenticator
\* code) returns false.
C14_BackupCodeSingleUse ==
    /\ [](backup_codes # Null =>
            \A c \in consumed : ~AnyOf(backup_codes[1], c))
    /\ [][(/\ call.pc = "rpc"
            /\ call'.pc = "idle"
            /\ call.otp \in consumed)
             => returned' = "false"]_vars

\* C15: disable_2fa leaves two_factor_enabled false, no secret and no backup
\* codes, and every verifyOTP begun after it (the profile not written since)
\* returns false.
C15_DisabledRefusesEveryCode ==
    /\ [](disabledSince =>
            /\ ~twoFactorEnabled
            /\ two_factor_secret = Null
            /\ backup_codes = Null)
    /\ [][(/\ call.pc # "idle"
            /\ call'.pc = "idle"
            /\ call.afterDisable
            /\ disabledSince)
             => returned' = "false"]_vars

\* C18: the batch generate_backup_codes stores has BatchSize codes, no two
\* of them equal.
C18_BatchCodesDistinct ==
    [][(\E codes \in Batches :
            backup_codes' = Some(codes) /\ UNCHANGED two_factor_secret
            /\ consumed' = {} /\ ~disabledSince' /\ UNCHANGED call)
         => /\ Len(backup_codes'[1]) = BatchSize
            /\ \A i, j \in 1..BatchSize :
                  i # j => backup_codes'[1][i] # backup_codes'[1][j]]_vars

\* C17: a code generated for a secret is accepted by verifyTOTP for that
\* secret whenever the verification falls in the 30-second step of the
\* generation.
C17_GeneratedCodeVerifies ==
    (totpToken # Null /\ checked # Null
       /\ checked[1].at \div TimeStep = totpToken[1].at \div TimeStep)
      => checked[1].ret

\* a code was verified in the step of its generation, some seconds later
C17_Witness ==
    /\ totpToken # Null
    /\ checked # Null
    /\ checked[1].at > totpToken[1].at
    /\ checked[1].at \div TimeStep = totpToken[1].at \div TimeStep
    /\ checked[1].ret

(* ---- properties of TwoFactorSetup ------------------------------------ *)

\* C16: when handleComplete's enable2FA enables 2FA with the secret of the
\* screen, a verifyTOTP of handleVerifyCode has accepted a code for that
\* secret since the screen was opened.
C16_EnableOnlyAfterVerification ==
    [][(setup.stage = "ready" /\ setup.pc = "enable"
          /\ setup'.stage = "ready" /\ setup'.pc = "codes")
         => /\ setup.secret \in verifiedSecrets
            /\ two_factor_secret' = Some(setup.secret)]_vars

\* 2FA was enabled from the screen after a code was verified
C16_Witness ==
    /\ setup.stage = "ready"
    /\ setup.pc = "codes"
    /\ twoFactorEnabled
    /\ two_factor_secret = Some(setup.secret)
    /\ setup.secret \in verifiedSecrets

(* ---- properties of complete2FALogin ---------------------------------- *)

\* C20: when complete2FALogin finds pending2FA or the retained credentials
\* missing, it leaves pending2FA null, the retained credentials null and no
\* session.
C20_IncompleteContextTornDown ==
    [][(complete2FAResult # "incomplete" /\ complete2FAResult' = "incomplete")
         => /\ pending2FA' = Null
            /\ pending2FACredentials' = Null
            /\ session' = Null]_vars

\* C21: when the profile fetch that follows a successful re-authentication
\* in complete2FALogin has ended, whatever it found, the session is in place
\* and user is set.
C21_FetchFailureKeepsUser ==
    [][(complete2FAPc = "query" /\ complete2FAPc' = "idle")
         => /\ session' # Null
            /\ user' # Null]_vars

\* C22: the retained credentials are null once complete2FALogin has got the
\* answer of its signInWithPassword (whatever the answer), once
\* cancel2FALogin has run and once signOut has ended.
C22_PasswordNotRetained ==
    [][/\ (complete2FAPc \in {"right", "wrong"} /\ complete2FAPc' # complete2FAPc)
           => pending2FACredentials' = Null
       /\ (cancelPc = "idle" /\ cancelPc' = "signOut")
           => pending2FACredentials' = Null
       /\ (signOutPc = "signOut" /\ signOutPc' = "idle")
           => pending2FACredentials' = Null]_vars

(* ---- properties of handleResendEmailOtp --------------------------------- *)

C29_EnabledImpliesCredentials ==
    vault.enabled => vault.credentials # Null

(* ---- properties of the screens that ask for the second factor ---------- *)

\* C25: with two_factor_enabled true on the profile, a bank account is
\* deleted or saved and the Change Password screen is opened only after
\* OTPVerification called onSuccess for that request.
C25_GatedBySecondFactor ==
    [][(gatePerformed' # gatePerformed /\ gatePerformed'[1].enabled)
         => gatePerformed'[1].via = "otp"]_vars

(* ---- properties of the PKR wallet --------------------------------------- *)

\* C26: pkr_balance is never negative, whatever the interleaving of
\* process_pkr_withdrawal calls on the wallet.
C26_BalanceNeverNegative == wallet.pkr_balance >= 0

\* C27: whenever no handleWithdraw and no confirm or decline is under way,
\* pkr_locked is the sum of the amounts of the pending withdrawals.
C27_LockedBackedByPending ==
    ((\A c \in 1..MaxWithdrawCalls : withdrawCalls[c].pc = "idle")
       /\ (\A a \in 1..MaxSettleCalls : settleCalls[a].pc = "idle"))
    => wallet.pkr_locked = SumPending(pkr_withdrawals, Len(pkr_withdrawals))

\* C28: at most one confirm or decline call on a withdrawal takes effect.
C28_SettledAtMostOnce ==
    \A id \in 1..Len(pkr_withdrawals) : pkr_withdrawals[id].settled <= 1

(* ---- properties of the backup codes of TwoFactorSetup ------------------ *)

\* C30: when handleComplete has succeeded, every backup code that was on the
\* screen of step 3 when Complete was pressed is among the codes stored for
\* the account.
C30_ShownCodesAreStored ==
    [][(setup.stage = "ready" /\ setup.pc = "codes" /\ setup'.stage = "closed")
         => \A i \in 1..Len(setup.backupCodes) :
                AnyOf(backup_codes'[1], setup.backupCodes[i])]_vars
====
